---- MODULE Spec2Model ----
(***************************************************************************)
(* A model of the raksha360 backend (src/app/routes.py and the modules it  *)
(* imports): the relational tables as sequences of rows (a row's id is its *)
(* position, rows of the actor tables are never deleted), the bearer       *)
(* tokens as their claims, and one action per HTTP handler.                *)
(*                                                                         *)
(* Conventions.  The id 0 and the timestamp 0 stand for SQL NULL / Python  *)
(* None, the string "null" for a None string.  Request bodies are parsed   *)
(* by the pydantic (v1, `orm_mode`) schemas of src/app/schemas.py, so a    *)
(* body field the schema does not declare never reaches the handler.       *)
(* Request bodies reference existing rows where a column is a foreign key  *)
(* (assigned_admin, patient_id): the store rejects the others at commit.   *)
(***************************************************************************)
EXTENDS Integers, Sequences, FiniteSets, TLC

\* ------------------------------------------------------------------ bounds
MaxPrescriptions == 2
MaxRequests == 2
MaxEnrichments == 1
MaxTickets == 3
MaxUpdates == 2
MaxAppointments == 2

\* The email addresses the requests of the model carry
Emails == {1, 2}
Roles == {"patient", "doctor", "hospital", "admin"}
NULL == "null"

VARIABLES
    patients,       \* table patients: rows [email, password_hash]
    doctors,        \* table doctors: rows [email, password_hash]
    hospitals,      \* table hospitals: rows [email, password_hash, status]
    admins,         \* table admin_users: rows [email, password_hash]
    tickets,        \* table tickets
    prescriptions,  \* table prescriptions
    appointments,   \* table appointments; a deleted row leaves its id used
    now,            \* the clock the store and datetime.utcnow() read
    inflight,       \* requests between two of their commits
    resp,           \* the last response sent
    updates         \* how many requests have changed a stored ticket

vars == <<patients, doctors, hospitals, admins, tickets, prescriptions, appointments, now,
          inflight, resp, updates>>

\* ------------------------------------------------------------------ helpers
Ids(table) == 1..Len(table)

\* query(...).filter(email == e).first(): the id of the row, 0 for None
FindByEmail(table, e) ==
    IF \E i \in Ids(table) : table[i].email = e
    THEN CHOOSE i \in Ids(table) :
            /\ table[i].email = e
            /\ \A j \in Ids(table) : table[j].email = e => i <= j
    ELSE 0

Table(role) ==
    CASE role = "patient" -> patients
      [] role = "doctor" -> doctors
      [] role = "hospital" -> hospitals
      [] OTHER -> admins

\* What the model keeps of the last response: the handler that answered and
\* the status code
Response(op, code) == [op |-> op, code |-> code]

\* ------------------------------------------------------------------ tokens
\* A token is its claims {sub, role}; BadToken is any string jwt.decode
\* rejects (bad signature, malformed, expired).
BadToken == [sub |-> 0, role |-> "invalid"]

\* create_access_token as called by the four logins and register_hospital:
\* the claims of the token issued to the row of kind `role` with this email.
create_access_token(email, role) == [sub |-> email, role |-> role]

\* The tokens the logins have been able to issue: one per stored actor row.
IssuedTokens ==
    UNION {{create_access_token(Table(r)[i].email, r) : i \in Ids(Table(r))} : r \in Roles}

Tokens == IssuedTokens \cup {BadToken}

\* decode_token_payload: the claims, or the 401 of an invalid token
decode_token_payload(tok) ==
    IF tok = BadToken THEN [ok |-> FALSE, code |-> 401, sub |-> 0, role |-> "invalid"]
    ELSE [ok |-> TRUE, code |-> 200, sub |-> tok.sub, role |-> tok.role]

Actor(ok, code, role, id) == [ok |-> ok, code |-> code, role |-> role, id |-> id]

\* get_current_patient / _doctor / _hospital / _admin: the row of the table
\* of `kind` whose email is the token's sub; the role claim is not read.
get_current(kind, tok) ==
    LET payload == decode_token_payload(tok)
        row == FindByEmail(Table(kind), payload.sub)
    IN  IF ~payload.ok THEN Actor(FALSE, 401, kind, 0)
        ELSE IF row = 0 THEN Actor(FALSE, 401, kind, 0)
        ELSE Actor(TRUE, 200, kind, row)

get_current_patient(tok) == get_current("patient", tok)
get_current_doctor(tok) == get_current("doctor", tok)
get_current_hospital(tok) == get_current("hospital", tok)
get_current_admin(tok) == get_current("admin", tok)

\* get_actor_from_token: dispatch on the role claim, then look the sub up in
\* that role's table.
get_actor_from_token(tok) ==
    LET payload == decode_token_payload(tok)
    IN  IF ~payload.ok THEN Actor(FALSE, 401, "invalid", 0)
        ELSE IF payload.role \in Roles
             THEN LET row == FindByEmail(Table(payload.role), payload.sub)
                  IN  IF row = 0 THEN Actor(FALSE, 401, payload.role, 0)
                      ELSE Actor(TRUE, 200, payload.role, row)
             ELSE Actor(FALSE, 401, payload.role, 0)

\* ------------------------------------------------------------------ tickets
\* A JSON payload: None, or a dict with its other keys (data) and its
\* "notes" entry (absent, a list, or a value that is no list).
NullPayload == [kind |-> "null", data |-> "", notes |-> "absent", items |-> <<>>]
Dict(data, notes, items) == [kind |-> "dict", data |-> data, notes |-> notes, items |-> items]

NoteEntry(role, id, note, at) == [by |-> role, by_id |-> id, note |-> note, at |-> at]

\* Python truthiness of `t.payload`: None and the empty dict are falsy
Truthy(payload) == payload.kind = "dict" /\ ~(payload.data = "" /\ payload.notes = "absent")

TicketRow(hospital_id, type, details, payload, assigned_admin, by_admin, by_hospital, at) ==
    [hospital_id |-> hospital_id, type |-> type, details |-> details,
     payload |-> payload, status |-> "open", assigned_admin |-> assigned_admin,
     created_at |-> at, closed_at |-> 0, closed_by_admin |-> 0,
     closed_by_hospital |-> 0, last_updated_by_admin |-> by_admin,
     last_updated_by_hospital |-> by_hospital]

\* The fields schemas.TicketCreate declares.  Reading any other attribute of
\* the parsed body raises AttributeError, which the framework answers 500.
TicketCreateFields == {"type", "count", "description", "hospital_id", "assigned_admin"}
Readable(fields) == fields \subseteq TicketCreateFields

\* The raw JSON body of POST /tickets and POST /hospital/requests
CreateBody(type, details, payload, hospital_id, assigned_admin) ==
    [type |-> type, details |-> details, payload |-> payload,
     hospital_id |-> hospital_id, assigned_admin |-> assigned_admin]

\* The JSON body of PUT /tickets/{id} as schemas.TicketUpdate parses it (the
\* handler reads neither count nor description)
UpdateBody(details, payload, status, assigned_admin, note) ==
    [details |-> details, payload |-> payload, status |-> status,
     assigned_admin |-> assigned_admin, note |-> note]

\* update_ticket, `if upd.status is not None:` block
SetStatus(t, actor, new_status) ==
    LET t1 == [t EXCEPT !.status = new_status]
    IN  IF new_status \in {"closed", "resolved"}
        THEN IF actor.role = "admin"
             THEN [t1 EXCEPT !.closed_at = now, !.closed_by_admin = actor.id]
             ELSE IF actor.role = "hospital"
                  THEN [t1 EXCEPT !.closed_at = now, !.closed_by_hospital = actor.id]
                  ELSE [t1 EXCEPT !.closed_at = now]
        ELSE t1

\* update_ticket, `# track last updated by`
TrackUpdater(t, actor) ==
    IF actor.role = "admin" THEN [t EXCEPT !.last_updated_by_admin = actor.id]
    ELSE IF actor.role = "hospital" THEN [t EXCEPT !.last_updated_by_hospital = actor.id]
    ELSE t

\* update_ticket, `if upd.note:` block: the notes list of the current payload
\* (a fresh list when there is none), the entry appended, in a copy of the dict
AppendNote(payload, actor, note) ==
    LET base == IF Truthy(payload) THEN payload ELSE Dict("", "absent", <<>>)
        notes == IF base.notes = "list" THEN base.items ELSE <<>>
    IN  Dict(base.data, "list", Append(notes, NoteEntry(actor.role, actor.id, note, now)))

\* update_ticket's "Apply updates" writing every field of the body, the ones
\* that are not supplied included
ApplyUpdate_replacing(t, actor, upd) ==
    LET t1 == [t EXCEPT !.details = upd.details, !.payload = upd.payload,
                        !.assigned_admin = upd.assigned_admin]
        t4 == SetStatus(t1, actor, upd.status)
        t5 == TrackUpdater(t4, actor)
    IN  IF upd.note # "" THEN [t5 EXCEPT !.payload = AppendNote(t5.payload, actor, upd.note)]
        ELSE t5

\* update_ticket's "Apply updates" with the note block ahead of the payload
\* assignment: the note goes into the stored payload, which the supplied one
\* then replaces
ApplyUpdate_note_first(t, actor, upd) ==
    LET t0 == IF upd.note # "" THEN [t EXCEPT !.payload = AppendNote(t.payload, actor, upd.note)]
              ELSE t
        t1 == IF upd.details # NULL THEN [t0 EXCEPT !.details = upd.details] ELSE t0
        t2 == IF upd.payload # NullPayload THEN [t1 EXCEPT !.payload = upd.payload] ELSE t1
        t3 == IF upd.assigned_admin # 0
              THEN [t2 EXCEPT !.assigned_admin = upd.assigned_admin] ELSE t2
        t4 == IF upd.status # NULL THEN SetStatus(t3, actor, upd.status) ELSE t3
    IN  TrackUpdater(t4, actor)

\* update_ticket, "Apply updates": the ticket object in the session after
\* the assignments, before the commit
ApplyUpdate(t, actor, upd) ==
    LET t1 == IF upd.details # NULL THEN [t EXCEPT !.details = upd.details] ELSE t
        t2 == IF upd.payload # NullPayload THEN [t1 EXCEPT !.payload = upd.payload] ELSE t1
        t3 == IF upd.assigned_admin # 0
              THEN [t2 EXCEPT !.assigned_admin = upd.assigned_admin] ELSE t2
        t4 == IF upd.status # NULL THEN SetStatus(t3, actor, upd.status) ELSE t3
        t5 == TrackUpdater(t4, actor)
    IN  IF upd.note # "" THEN [t5 EXCEPT !.payload = AppendNote(t5.payload, actor, upd.note)]
        ELSE t5

\* update_ticket, the `changed` flag
Changed(upd) ==
    \/ upd.details # NULL
    \/ upd.payload # NullPayload
    \/ upd.assigned_admin # 0
    \/ upd.status # NULL
    \/ upd.note # ""

\* Whether the commit writes the payload column.  The session writes a column
\* when its new value differs (==) from the value it loaded.  With a note and
\* no payload in the request, `notes` is the list inside the loaded dict and
\* notes.append changes that loaded dict in place before the copy is assigned:
\* the loaded and the new dict then compare equal and the column is skipped.
PayloadWritten(stored, upd) ==
    ~(upd.note # "" /\ upd.payload = NullPayload /\ stored.payload.kind = "dict"
      /\ stored.payload.notes = "list")

\* db.add(t); db.commit(); db.refresh(t): the row the store holds afterwards
CommitTicket(stored, mem, upd) ==
    IF PayloadWritten(stored, upd) THEN mem ELSE [mem EXCEPT !.payload = stored.payload]

\* update_ticket without its "# Authorization" block
update_ticket_unauthorized(tok, ticket_id, upd) ==
    LET actor == get_actor_from_token(tok)
        Out(code, rows) == [code |-> code, tickets |-> rows]
    IN  IF ~actor.ok THEN Out(actor.code, tickets)
        ELSE IF ticket_id \notin Ids(tickets) THEN Out(404, tickets)
        ELSE IF Changed(upd)
        THEN Out(200, [tickets EXCEPT ![ticket_id] =
                          CommitTicket(@, ApplyUpdate(@, actor, upd), upd)])
        ELSE Out(200, tickets)

\* update_ticket refusing to change the status of a resolved, rejected or
\* closed ticket
update_ticket_terminal(tok, ticket_id, upd) ==
    LET actor == get_actor_from_token(tok)
        Out(code, rows) == [code |-> code, tickets |-> rows]
    IN  IF ~actor.ok THEN Out(actor.code, tickets)
        ELSE IF ticket_id \notin Ids(tickets) THEN Out(404, tickets)
        ELSE IF actor.role = "hospital" /\ tickets[ticket_id].hospital_id # actor.id
        THEN Out(403, tickets)
        ELSE IF upd.status # NULL
                /\ tickets[ticket_id].status \in {"resolved", "rejected", "closed"}
        THEN Out(400, tickets)
        ELSE IF Changed(upd)
        THEN Out(200, [tickets EXCEPT ![ticket_id] =
                          CommitTicket(@, ApplyUpdate(@, actor, upd), upd)])
        ELSE Out(200, tickets)

\* PUT /tickets/{ticket_id}: the status code and the tickets table afterwards
update_ticket(tok, ticket_id, upd) ==
    LET actor == get_actor_from_token(tok)
        Out(code, rows) == [code |-> code, tickets |-> rows]
    IN  IF ~actor.ok THEN Out(actor.code, tickets)
        ELSE IF ticket_id \notin Ids(tickets) THEN Out(404, tickets)
        ELSE IF actor.role = "hospital" /\ tickets[ticket_id].hospital_id # actor.id
        THEN Out(403, tickets)
        ELSE IF Changed(upd)
        THEN Out(200, [tickets EXCEPT ![ticket_id] =
                          CommitTicket(@, ApplyUpdate(@, actor, upd), upd)])
        ELSE Out(200, tickets)

\* create_ticket building an admin's ticket for every caller that is not a
\* hospital
create_ticket_any(tok, ticket_in) ==
    LET actor == get_actor_from_token(tok)
        Out(code, rows) == [code |-> code, tickets |-> rows]
    IN  IF ~actor.ok THEN Out(actor.code, tickets)
        ELSE IF actor.role = "hospital"
        THEN IF Readable({"type", "details", "payload", "assigned_admin"})
             THEN Out(201, Append(tickets,
                        TicketRow(actor.id, ticket_in.type, ticket_in.details,
                                  ticket_in.payload, ticket_in.assigned_admin,
                                  0, actor.id, now)))
             ELSE Out(500, tickets)
        ELSE IF Readable({"hospital_id", "type", "details", "payload", "assigned_admin"})
        THEN Out(201, Append(tickets,
                   TicketRow(ticket_in.hospital_id, ticket_in.type, ticket_in.details,
                             ticket_in.payload, ticket_in.assigned_admin,
                             actor.id, 0, now)))
        ELSE Out(500, tickets)

\* POST /tickets: the status code and the tickets table afterwards.  A row
\* inserted gets the next id and the store's now() as created_at.
create_ticket(tok, ticket_in) ==
    LET actor == get_actor_from_token(tok)
        Out(code, rows) == [code |-> code, tickets |-> rows]
    IN  IF ~actor.ok THEN Out(actor.code, tickets)
        ELSE IF actor.role = "hospital"
        THEN IF Readable({"type", "details", "payload", "assigned_admin"})
             THEN Out(201, Append(tickets,
                        TicketRow(actor.id, ticket_in.type, ticket_in.details,
                                  ticket_in.payload, ticket_in.assigned_admin,
                                  0, actor.id, now)))
             ELSE Out(500, tickets)
        ELSE IF actor.role = "admin"
        THEN IF Readable({"hospital_id", "type", "details", "payload", "assigned_admin"})
             THEN Out(201, Append(tickets,
                        TicketRow(ticket_in.hospital_id, ticket_in.type, ticket_in.details,
                                  ticket_in.payload, ticket_in.assigned_admin,
                                  actor.id, 0, now)))
             ELSE Out(500, tickets)
        ELSE Out(403, tickets)

\* POST /hospital/requests (legacy)
create_hospital_request(tok, payload) ==
    LET hospital == get_current_hospital(tok)
        Out(code, rows) == [code |-> code, tickets |-> rows]
    IN  IF ~hospital.ok THEN Out(hospital.code, tickets)
        ELSE IF Readable({"type", "details", "payload"})
        THEN Out(200, Append(tickets,
                   TicketRow(hospital.id, payload.type, payload.details, payload.payload,
                             0, 0, hospital.id, now)))
        ELSE Out(500, tickets)

\* order_by(created_at.desc()).all() over the rows with ids in S
RECURSIVE OrderDesc(_)
OrderDesc(S) ==
    IF S = {} THEN <<>>
    ELSE LET first == CHOOSE i \in S : \A j \in S : tickets[j].created_at <= tickets[i].created_at
         IN  <<first>> \o OrderDesc(S \ {first})

\* get_tickets applying the hospital_id parameter to every caller, hospitals
\* included
get_tickets_unscoped(tok, status, hospital_id) ==
    LET actor == get_actor_from_token(tok)
        Out(code, body) == [code |-> code, body |-> body]
        all == {i \in Ids(tickets) :
                    /\ hospital_id # 0 => tickets[i].hospital_id = hospital_id
                    /\ status # "" => tickets[i].status = status}
    IN  IF ~actor.ok THEN Out(actor.code, <<>>)
        ELSE IF actor.role \in {"hospital", "admin"} THEN Out(200, OrderDesc(all))
        ELSE Out(403, <<>>)

\* GET /tickets?status=&hospital_id=  ("" and 0: the parameter is not given):
\* the status code and the ids of the rows returned, in order
get_tickets(tok, status, hospital_id) ==
    LET actor == get_actor_from_token(tok)
        Out(code, body) == [code |-> code, body |-> body]
        mine == {i \in Ids(tickets) :
                    /\ tickets[i].hospital_id = actor.id
                    /\ status # "" => tickets[i].status = status}
        all == {i \in Ids(tickets) :
                    /\ hospital_id # 0 => tickets[i].hospital_id = hospital_id
                    /\ status # "" => tickets[i].status = status}
    IN  IF ~actor.ok THEN Out(actor.code, <<>>)
        ELSE IF actor.role = "hospital" THEN Out(200, OrderDesc(mine))
        ELSE IF actor.role = "admin" THEN Out(200, OrderDesc(all))
        ELSE Out(403, <<>>)

\* admin_take_action whose reject action also returns the ticket's hospital
\* to pending
admin_take_action_rejecting(tok, request_id, act, assign_to) ==
    LET current_admin == get_current_admin(tok)
        Out(code, rows, hosps) == [code |-> code, tickets |-> rows, hospitals |-> hosps]
        r == tickets[request_id]
        Commit(t) == [tickets EXCEPT ![request_id] =
                         [t EXCEPT !.last_updated_by_admin = current_admin.id]]
    IN  IF ~current_admin.ok THEN Out(current_admin.code, tickets, hospitals)
        ELSE IF request_id \notin Ids(tickets) THEN Out(404, tickets, hospitals)
        ELSE IF act = "assign" /\ assign_to # 0
        THEN Out(200, Commit([r EXCEPT !.assigned_admin = assign_to,
                                       !.status = "in_progress"]), hospitals)
        ELSE IF act = "start"
        THEN Out(200, Commit([r EXCEPT !.status = "in_progress"]), hospitals)
        ELSE IF act = "resolve"
        THEN Out(200, Commit([r EXCEPT !.status = "resolved", !.closed_at = now,
                                       !.closed_by_admin = current_admin.id]), hospitals)
        ELSE IF act = "reject"
        THEN Out(200, Commit([r EXCEPT !.status = "rejected"]),
                 IF r.hospital_id \in Ids(hospitals)
                 THEN [hospitals EXCEPT ![r.hospital_id].status = "pending"]
                 ELSE hospitals)
        ELSE IF act = "approve_signup"
        THEN IF r.hospital_id # 0 /\ r.hospital_id \in Ids(hospitals)
             THEN Out(200, Commit([r EXCEPT !.status = "resolved"]),
                      [hospitals EXCEPT ![r.hospital_id].status = "active"])
             ELSE Out(200, Commit(r), hospitals)
        ELSE Out(400, tickets, hospitals)

\* admin_take_action whose assign action does not ask for assign_to
admin_take_action_assigning(tok, request_id, act, assign_to) ==
    LET current_admin == get_current_admin(tok)
        Out(code, rows, hosps) == [code |-> code, tickets |-> rows, hospitals |-> hosps]
        r == tickets[request_id]
        Commit(t) == [tickets EXCEPT ![request_id] =
                         [t EXCEPT !.last_updated_by_admin = current_admin.id]]
    IN  IF ~current_admin.ok THEN Out(current_admin.code, tickets, hospitals)
        ELSE IF request_id \notin Ids(tickets) THEN Out(404, tickets, hospitals)
        ELSE IF act = "assign"
        THEN Out(200, Commit([r EXCEPT !.assigned_admin = assign_to,
                                       !.status = "in_progress"]), hospitals)
        ELSE IF act = "start"
        THEN Out(200, Commit([r EXCEPT !.status = "in_progress"]), hospitals)
        ELSE IF act = "resolve"
        THEN Out(200, Commit([r EXCEPT !.status = "resolved", !.closed_at = now,
                                       !.closed_by_admin = current_admin.id]), hospitals)
        ELSE IF act = "reject"
        THEN Out(200, Commit([r EXCEPT !.status = "rejected"]), hospitals)
        ELSE IF act = "approve_signup"
        THEN IF r.hospital_id # 0 /\ r.hospital_id \in Ids(hospitals)
             THEN Out(200, Commit([r EXCEPT !.status = "resolved"]),
                      [hospitals EXCEPT ![r.hospital_id].status = "active"])
             ELSE Out(200, Commit(r), hospitals)
        ELSE Out(400, tickets, hospitals)

\* POST /admin/requests/{request_id}/action with body {action, assign_to}:
\* the status code, the tickets and the hospitals afterwards
admin_take_action(tok, request_id, act, assign_to) ==
    LET current_admin == get_current_admin(tok)
        Out(code, rows, hosps) == [code |-> code, tickets |-> rows, hospitals |-> hosps]
        r == tickets[request_id]
        \* r.last_updated_by_admin = ...; db.add(r); db.commit()
        Commit(t) == [tickets EXCEPT ![request_id] =
                         [t EXCEPT !.last_updated_by_admin = current_admin.id]]
    IN  IF ~current_admin.ok THEN Out(current_admin.code, tickets, hospitals)
        ELSE IF request_id \notin Ids(tickets) THEN Out(404, tickets, hospitals)
        ELSE IF act = "assign" /\ assign_to # 0
        THEN Out(200, Commit([r EXCEPT !.assigned_admin = assign_to,
                                       !.status = "in_progress"]), hospitals)
        ELSE IF act = "start"
        THEN Out(200, Commit([r EXCEPT !.status = "in_progress"]), hospitals)
        ELSE IF act = "resolve"
        THEN Out(200, Commit([r EXCEPT !.status = "resolved", !.closed_at = now,
                                       !.closed_by_admin = current_admin.id]), hospitals)
        ELSE IF act = "reject"
        THEN Out(200, Commit([r EXCEPT !.status = "rejected"]), hospitals)
        ELSE IF act = "approve_signup"
        THEN IF r.hospital_id # 0 /\ r.hospital_id \in Ids(hospitals)
             THEN Out(200, Commit([r EXCEPT !.status = "resolved"]),
                      [hospitals EXCEPT ![r.hospital_id].status = "active"])
             ELSE Out(200, Commit(r), hospitals)
        ELSE Out(400, tickets, hospitals)

\* ------------------------------------------------------------------ signup
\* auth.hash_password / auth.verify_password: the hash keeps which password
\* it was made from, and nothing else verifies against it
hash_password(password) == <<"bcrypt", password>>
verify_password(plain_password, hashed_password) ==
    hashed_password = hash_password(plain_password)

\* The password every signup request of the model carries, and the one the
\* seeded admin was given
SignupPassword == "pw1"
Passwords == {SignupPassword, "pw2"}

SignupOps == {"patient_signup", "doctor_signup", "register_hospital", "admin_create_hospital"}

\* The table a signup operation inserts into
KindOf(op) ==
    CASE op = "patient_signup" -> "patient"
      [] op = "doctor_signup" -> "doctor"
      [] OTHER -> "hospital"

\* The email check that opens each signup handler: a row with it exists
AlreadyExists(op, email) == FindByEmail(Table(KindOf(op)), email) # 0

\* The status of the response of a signup that succeeded
Created(op) == IF op = "register_hospital" THEN 201 ELSE 200

\* The row a signup operation builds
NewRow(op, email) ==
    CASE op = "register_hospital" ->
             [email |-> email, password_hash |-> hash_password(SignupPassword),
              status |-> "pending"]
      [] op = "admin_create_hospital" ->
             [email |-> email, password_hash |-> hash_password(SignupPassword),
              status |-> "active"]
      [] OTHER -> [email |-> email, password_hash |-> hash_password(SignupPassword)]

\* db.add(row); db.commit(): the three tables afterwards
Inserted(op, email) ==
    [patients |-> IF KindOf(op) = "patient" THEN Append(patients, NewRow(op, email))
                  ELSE patients,
     doctors |-> IF KindOf(op) = "doctor" THEN Append(doctors, NewRow(op, email))
                 ELSE doctors,
     hospitals |-> IF KindOf(op) = "hospital" THEN Append(hospitals, NewRow(op, email))
                   ELSE hospitals]

Stored == [patients |-> patients, doctors |-> doctors, hospitals |-> hospitals]

\* register_hospital, "Create a signup ticket in the central tickets table"
SignupTicket(hospital_id) ==
    TicketRow(hospital_id, "onboard_hospital", "signup", Dict("reg", "absent", <<>>),
              0, 0, hospital_id, now)

\* POST /auth/patient/signup, POST /auth/doctor/signup, POST /hospital/register
\* and POST /admin/hospitals served with no other request in between: the
\* status code and the tables afterwards
signup(op, tok, email) ==
    LET current_admin == get_current_admin(tok)
        Out(code, tables, rows) == [code |-> code, tables |-> tables, tickets |-> rows]
    IN  IF op = "admin_create_hospital" /\ ~current_admin.ok
        THEN Out(current_admin.code, Stored, tickets)
        ELSE IF AlreadyExists(op, email) THEN Out(400, Stored, tickets)
        ELSE IF op = "register_hospital"
        THEN Out(201, Inserted(op, email), Append(tickets, SignupTicket(Len(hospitals) + 1)))
        ELSE Out(Created(op), Inserted(op, email), tickets)

patient_signup(email) == signup("patient_signup", BadToken, email)
doctor_signup(email) == signup("doctor_signup", BadToken, email)
register_hospital(email) == signup("register_hospital", BadToken, email)
admin_create_hospital(tok, email) == signup("admin_create_hospital", tok, email)

\* ------------------------------------------------------------ prescriptions
\* The body of POST /prescriptions (schemas.PrescriptionCreate)
PresBody(patient_id, diagnosis, raw_medicines) ==
    [patient_id |-> patient_id, diagnosis |-> diagnosis, raw_medicines |-> raw_medicines]

\* order_by(Prescription.created_at.desc()).all() over the rows with ids in S
RECURSIVE OrderPresDesc(_)
OrderPresDesc(S) ==
    IF S = {} THEN <<>>
    ELSE LET first == CHOOSE i \in S :
                        \A j \in S : prescriptions[j].created_at <= prescriptions[i].created_at
         IN  <<first>> \o OrderPresDesc(S \ {first})

\* GET /prescriptions/patient/{patient_id}: the status code and the ids of the
\* prescriptions returned
list_patient_prescriptions(tok, patient_id) ==
    LET payload == decode_token_payload(tok)
        patient == FindByEmail(patients, payload.sub)
        doctor == FindByEmail(doctors, payload.sub)
        Out(code, body) == [code |-> code, body |-> body]
        rows == {i \in Ids(prescriptions) : prescriptions[i].patient_id = patient_id}
    IN  IF ~payload.ok THEN Out(401, <<>>)
        ELSE IF payload.role = "patient"
        THEN IF patient = 0 \/ patient # patient_id THEN Out(403, <<>>)
             ELSE Out(200, OrderPresDesc(rows))
        ELSE IF payload.role = "doctor"
        THEN IF doctor = 0 THEN Out(403, <<>>) ELSE Out(200, OrderPresDesc(rows))
        ELSE Out(403, <<>>)

\* GET /prescriptions/{pres_id}
get_prescription(tok, pres_id) ==
    LET payload == decode_token_payload(tok)
        patient == FindByEmail(patients, payload.sub)
        doctor == FindByEmail(doctors, payload.sub)
        pres == prescriptions[pres_id]
        Out(code, body) == [code |-> code, body |-> body]
    IN  IF pres_id \notin Ids(prescriptions) THEN Out(404, <<>>)
        ELSE IF ~payload.ok THEN Out(401, <<>>)
        ELSE IF payload.role = "patient"
        THEN IF patient = 0 \/ patient # pres.patient_id THEN Out(403, <<>>)
             ELSE Out(200, <<pres_id>>)
        ELSE IF payload.role = "doctor"
        THEN IF doctor = 0 \/ doctor # pres.doctor_id THEN Out(403, <<>>)
             ELSE Out(200, <<pres_id>>)
        ELSE Out(403, <<>>)

\* GET /prescriptions/{pres_id}/download
download_prescription_pdf(tok, pres_id) ==
    LET payload == decode_token_payload(tok)
        patient == FindByEmail(patients, payload.sub)
        doctor == FindByEmail(doctors, payload.sub)
        pres == prescriptions[pres_id]
        Out(code, body) == [code |-> code, body |-> body]
        authorized ==
            IF payload.role = "patient" THEN patient # 0 /\ patient = pres.patient_id
            ELSE IF payload.role = "doctor" THEN doctor # 0 /\ doctor = pres.doctor_id
            ELSE payload.role \in {"admin", "hospital"}
    IN  IF pres_id \notin Ids(prescriptions) THEN Out(404, <<>>)
        ELSE IF ~payload.ok THEN Out(401, <<>>)
        ELSE IF ~authorized THEN Out(403, <<>>)
        ELSE Out(200, <<pres_id>>)

\* ------------------------------------------------------------------ actions
\* One request served from its first line to its response.

Signup(op, tok, email) ==
    LET out == signup(op, tok, email)
    IN  /\ patients' = out.tables.patients
        /\ doctors' = out.tables.doctors
        /\ hospitals' = out.tables.hospitals
        /\ tickets' = out.tickets
        /\ now' = IF out.tickets # tickets THEN now + 1 ELSE now
        /\ resp' = Response(op, out.code)
        /\ UNCHANGED <<admins, appointments, prescriptions, inflight, updates>>

PostTickets(tok, ticket_in) ==
    LET out == create_ticket(tok, ticket_in)
    IN  /\ Len(tickets) < MaxTickets
        /\ tickets' = out.tickets
        /\ now' = IF out.tickets # tickets THEN now + 1 ELSE now
        /\ resp' = Response("create_ticket", out.code)
        /\ UNCHANGED <<patients, doctors, hospitals, admins, appointments,
                       prescriptions, inflight, updates>>

PostHospitalRequests(tok, payload) ==
    LET out == create_hospital_request(tok, payload)
    IN  /\ Len(tickets) < MaxTickets
        /\ tickets' = out.tickets
        /\ now' = IF out.tickets # tickets THEN now + 1 ELSE now
        /\ resp' = Response("create_hospital_request", out.code)
        /\ UNCHANGED <<patients, doctors, hospitals, admins, appointments,
                       prescriptions, inflight, updates>>

PutTickets(tok, ticket_id, upd) ==
    LET out == update_ticket(tok, ticket_id, upd)
    IN  /\ updates < MaxUpdates
        /\ tickets' = out.tickets
        /\ updates' = IF out.tickets # tickets THEN updates + 1 ELSE updates
        /\ resp' = Response("update_ticket", out.code)
        /\ UNCHANGED <<patients, doctors, hospitals, admins, appointments,
                       prescriptions, now, inflight>>

GetTickets(tok, status, hospital_id) ==
    /\ resp' = Response("get_tickets", get_tickets(tok, status, hospital_id).code)
    /\ UNCHANGED <<patients, doctors, hospitals, admins, appointments, tickets,
                   prescriptions, now, inflight, updates>>

PostAdminAction(tok, request_id, act, assign_to) ==
    LET out == admin_take_action(tok, request_id, act, assign_to)
    IN  /\ updates < MaxUpdates
        /\ tickets' = out.tickets
        /\ hospitals' = out.hospitals
        /\ updates' = IF out.tickets # tickets THEN updates + 1 ELSE updates
        /\ resp' = Response("admin_take_action", out.code)
        /\ UNCHANGED <<patients, doctors, admins, appointments, prescriptions, now,
                       inflight>>

\* ------------------------------------------------------------------ inputs
\* The values the requests of the model carry.
StatusValues == {"open", "in_progress", "resolved", "rejected", "closed"}
StatusArgs == {NULL, "in_progress", "resolved", "closed", "bogus"}
DetailsArgs == {NULL, "d1"}
NoteArgs == {"", "n1"}
SentNote == NoteEntry("hospital", 1, "n0", 0)
PayloadArgs == {NullPayload, Dict("x", "absent", <<>>), Dict("x", "list", <<SentNote>>)}
AdminRefs == {0} \cup Ids(admins)
HospitalRefs == {0} \cup Ids(hospitals)
TicketRefs == 1..(Len(tickets) + 1)
\* The bodies of POST /admin/requests/{id}/action: <<action, assign_to>>
ActionBodies ==
    {<<act, 0>> : act \in {"assign", "start", "resolve", "reject", "approve_signup", "bogus"}}
    \cup {<<"assign", a>> : a \in Ids(admins)}

\* PUT /tickets bodies that change the status, the assignee, both or nothing
LifecycleUpdates ==
    {UpdateBody(NULL, NullPayload, s, 0, "") : s \in StatusArgs}
    \cup {UpdateBody(NULL, NullPayload, s, a, "") : s \in {NULL, "closed"}, a \in Ids(admins)}

\* PUT /tickets bodies over details, payload and note, and a note sent with a
\* status and an assignee
ContentUpdates ==
    {UpdateBody(d, p, NULL, 0, n) : d \in DetailsArgs, p \in PayloadArgs, n \in NoteArgs}
    \cup {UpdateBody(NULL, NullPayload, "closed", a, "n1") : a \in AdminRefs}

CreateBodies ==
    {CreateBody("staff", "d1", Dict("x", "absent", <<>>), h, 0) : h \in HospitalRefs}

\* ------------------------------------------------------------------ Init
\* The row of admin_users the deployment seeds
SeededAdmin == [email |-> 1, password_hash |-> hash_password(SignupPassword)]

NoResponse == Response("none", 0)

\* The store after deployment: the tables are empty but for admin_users,
\* whose rows no handler creates (they are seeded).
Init ==
    /\ patients = <<>>
    /\ doctors = <<>>
    /\ hospitals = <<>>
    /\ admins = <<SeededAdmin>>
    /\ tickets = <<>>
    /\ prescriptions = <<>>
    /\ appointments = <<>>
    /\ now = 1
    /\ inflight = {}
    /\ resp = NoResponse
    /\ updates = 0

\* ------------------------------------------------- ticket lifecycle (Spec)
\* Hospitals register, hospitals and admins update tickets, admins act on
\* them.
Next ==
    \/ \E e \in Emails : Signup("register_hospital", BadToken, e)
    \/ \E tok \in Tokens, t \in TicketRefs, upd \in LifecycleUpdates : PutTickets(tok, t, upd)
    \/ \E tok \in Tokens, t \in TicketRefs, b \in ActionBodies :
          PostAdminAction(tok, t, b[1], b[2])

Spec == Init /\ [][Next]_vars

\* ------------------------------------------- ticket creation (SpecCreate)
NextCreate ==
    \/ \E e \in Emails : Signup("register_hospital", BadToken, e)
    \/ \E e \in {1} : Signup("patient_signup", BadToken, e)
    \/ \E e \in {1} : Signup("doctor_signup", BadToken, e)
    \/ \E tok \in Tokens, e \in Emails : Signup("admin_create_hospital", tok, e)
    \/ \E tok \in Tokens, b \in CreateBodies : PostTickets(tok, b)
    \/ \E tok \in Tokens, b \in CreateBodies : PostHospitalRequests(tok, b)

SpecCreate == Init /\ [][NextCreate]_vars

\* --------------------------------------------- ticket listing (SpecList)
NextList ==
    \/ \E e \in Emails : Signup("register_hospital", BadToken, e)
    \/ \E e \in {1} : Signup("patient_signup", BadToken, e)
    \/ \E e \in {2} : Signup("doctor_signup", BadToken, e)
    \/ \E tok \in Tokens, t \in TicketRefs, b \in ActionBodies :
          PostAdminAction(tok, t, b[1], b[2])
    \/ \E tok \in Tokens, s \in {"", "open", "resolved"}, h \in HospitalRefs :
          GetTickets(tok, s, h)

SpecList == Init /\ [][NextList]_vars

\* ------------------------------------- ticket content updates (SpecNotes)
\* Hospitals and a patient register; every bearer updates ticket content.
NextNotes ==
    \/ \E e \in Emails : Signup("register_hospital", BadToken, e)
    \/ \E e \in {1} : Signup("patient_signup", BadToken, e)
    \/ \E tok \in Tokens, t \in TicketRefs, upd \in ContentUpdates : PutTickets(tok, t, upd)

SpecNotes == Init /\ [][NextNotes]_vars
\* ------------------------------------------ signup, step by step (SpecRace)
\* A request in flight: the handler has run up to its next commit.
Request(rid, op, email, role, pc, id) ==
    [rid |-> rid, op |-> op, email |-> email, role |-> role, pc |-> pc, id |-> id]

FreeRids == (1..MaxRequests) \ {q.rid : q \in inflight}

\* The first query of a signup handler (for POST /admin/hospitals, after the
\* admin is resolved): the row with this email, if any
signup_check(rid, op, tok, email) ==
    LET current_admin == get_current_admin(tok)
    IN  /\ rid \in FreeRids
        /\ op \in SignupOps
        /\ IF op = "admin_create_hospital" /\ ~current_admin.ok
           THEN resp' = Response(op, current_admin.code) /\ UNCHANGED inflight
           ELSE IF AlreadyExists(op, email)
           THEN resp' = Response(op, 400) /\ UNCHANGED inflight
           ELSE /\ inflight' = inflight \cup {Request(rid, op, email, "none", "insert", 0)}
                /\ UNCHANGED resp
        /\ UNCHANGED <<patients, doctors, hospitals, admins, appointments, tickets,
                       prescriptions, now, updates>>

\* db.add(row); db.commit() of a signup in flight.  email is unique in each
\* table (models.py): the commit of a second row with the email raises
\* IntegrityError, which no signup handler turns into a 400 (register_hospital
\* catches it as `except Exception` and answers 500).
signup_insert(q) ==
    /\ q \in inflight
    /\ q.op \in SignupOps
    /\ q.pc = "insert"
    /\ IF AlreadyExists(q.op, q.email)
       THEN /\ resp' = Response(q.op, 500)
            /\ inflight' = inflight \ {q}
            /\ UNCHANGED <<patients, doctors, hospitals>>
       ELSE /\ patients' = Inserted(q.op, q.email).patients
            /\ doctors' = Inserted(q.op, q.email).doctors
            /\ hospitals' = Inserted(q.op, q.email).hospitals
            /\ IF q.op = "register_hospital"
               THEN /\ inflight' = (inflight \ {q}) \cup
                          {Request(q.rid, q.op, q.email, q.role, "ticket", Len(hospitals) + 1)}
                    /\ UNCHANGED resp
               ELSE /\ inflight' = inflight \ {q}
                    /\ resp' = Response(q.op, Created(q.op))
    /\ UNCHANGED <<admins, appointments, tickets, prescriptions, now, updates>>

\* register_hospital in flight: the signup ticket's commit and the response
register_ticket(q) ==
    /\ q \in inflight
    /\ q.op = "register_hospital"
    /\ q.pc = "ticket"
    /\ tickets' = Append(tickets, SignupTicket(q.id))
    /\ now' = now + 1
    /\ inflight' = inflight \ {q}
    /\ resp' = Response(q.op, 201)
    /\ UNCHANGED <<patients, doctors, hospitals, admins, appointments, prescriptions,
                   updates>>

NextRace ==
    \/ \E rid \in 1..MaxRequests, op \in SignupOps, tok \in Tokens, e \in Emails :
          signup_check(rid, op, tok, e)
    \/ \E q \in inflight : signup_insert(q)
    \/ \E q \in inflight : register_ticket(q)

SpecRace == Init /\ [][NextRace]_vars

\* ------------------------------------------------ prescriptions (SpecPres)
\* call_langchain_agent is the collaborator the handler guards with
\* try/except: it returns a dict or raises.
AgentOutcomes == {"returned", "raised"}

\* create_prescription up to its first commit: the row with llm_status pending
create_prescription(rid, tok, pres_in) ==
    LET current_doctor == get_current_doctor(tok)
        pres == [patient_id |-> pres_in.patient_id, doctor_id |-> current_doctor.id,
                 raw_medicines |-> pres_in.raw_medicines, diagnosis |-> pres_in.diagnosis,
                 llm_status |-> "pending", llm_output |-> "null", llm_version |-> NULL,
                 created_at |-> now]
    IN  /\ rid \in FreeRids
        /\ Len(prescriptions) < MaxPrescriptions
        /\ IF ~current_doctor.ok
           THEN /\ resp' = Response("create_prescription", current_doctor.code)
                /\ UNCHANGED <<prescriptions, inflight, now>>
           ELSE /\ prescriptions' = Append(prescriptions, pres)
                /\ now' = now + 1
                /\ inflight' = inflight \cup
                      {Request(rid, "create_prescription", tok.sub, tok.role, "enrich",
                               Len(prescriptions) + 1)}
                /\ UNCHANGED resp
        /\ UNCHANGED <<patients, doctors, hospitals, admins, appointments, tickets,
                       updates>>

\* create_prescription without the try/except around the collaborator: its
\* exception ends the request with 500 and the row stays pending
enrich_prescription_uncaught(q, outcome) ==
    /\ q \in inflight
    /\ q.op = "create_prescription"
    /\ q.pc = "enrich"
    /\ IF outcome = "returned"
       THEN /\ prescriptions' = [prescriptions EXCEPT ![q.id] =
                   [@ EXCEPT !.llm_output = "result", !.llm_version = "langchain-stub",
                             !.llm_status = "done"]]
            /\ resp' = Response("create_prescription", 201)
       ELSE /\ UNCHANGED prescriptions
            /\ resp' = Response("create_prescription", 500)
    /\ inflight' = inflight \ {q}
    /\ UNCHANGED <<patients, doctors, hospitals, admins, appointments, tickets, now,
                   updates>>

\* create_prescription from the collaborator's call to the response: the
\* try/except and the second commit
enrich_prescription(q, outcome) ==
    /\ q \in inflight
    /\ q.op = "create_prescription"
    /\ q.pc = "enrich"
    /\ prescriptions' = [prescriptions EXCEPT ![q.id] =
          IF outcome = "returned"
          THEN [@ EXCEPT !.llm_output = "result", !.llm_version = "langchain-stub",
                         !.llm_status = "done"]
          ELSE [@ EXCEPT !.llm_output = "error", !.llm_status = "error"]]
    /\ inflight' = inflight \ {q}
    /\ resp' = Response("create_prescription", 201)
    /\ UNCHANGED <<patients, doctors, hospitals, admins, appointments, tickets, now,
                   updates>>

ListPatientPrescriptions(tok, patient_id) ==
    /\ resp' = Response("list_patient_prescriptions",
                        list_patient_prescriptions(tok, patient_id).code)
    /\ UNCHANGED <<patients, doctors, hospitals, admins, appointments, tickets,
                   prescriptions, now, inflight, updates>>

GetPrescription(tok, pres_id) ==
    /\ resp' = Response("get_prescription", get_prescription(tok, pres_id).code)
    /\ UNCHANGED <<patients, doctors, hospitals, admins, appointments, tickets,
                   prescriptions, now, inflight, updates>>

DownloadPrescriptionPdf(tok, pres_id) ==
    /\ resp' = Response("download_prescription_pdf",
                        download_prescription_pdf(tok, pres_id).code)
    /\ UNCHANGED <<patients, doctors, hospitals, admins, appointments, tickets,
                   prescriptions, now, inflight, updates>>

PatientRefs == 1..(Len(patients) + 1)
PrescriptionRefs == 1..(Len(prescriptions) + 1)
PresBodies ==
    {PresBody(p, "flu", "m1") : p \in Ids(patients)}
    \cup {PresBody(p, NULL, "m2") : p \in Ids(patients)}

NextPres ==
    \/ \E e \in Emails : Signup("patient_signup", BadToken, e)
    \/ \E e \in Emails : Signup("doctor_signup", BadToken, e)
    \/ \E rid \in 1..MaxEnrichments, tok \in Tokens, b \in PresBodies :
          create_prescription(rid, tok, b)
    \/ \E q \in inflight, outcome \in AgentOutcomes : enrich_prescription(q, outcome)
    \/ \E tok \in Tokens, p \in PatientRefs : ListPatientPrescriptions(tok, p)
    \/ \E tok \in Tokens, p \in PrescriptionRefs : GetPrescription(tok, p)
    \/ \E tok \in Tokens, p \in PrescriptionRefs : DownloadPrescriptionPdf(tok, p)

SpecPres == Init /\ [][NextPres]_vars

\* -------------------------------- writing a prescription alone (SpecEnrich)
NextEnrich ==
    \/ \E e \in {1} : Signup("patient_signup", BadToken, e)
    \/ \E e \in Emails : Signup("doctor_signup", BadToken, e)
    \/ \E rid \in 1..MaxEnrichments, tok \in Tokens, b \in PresBodies :
          create_prescription(rid, tok, b)
    \/ \E q \in inflight, outcome \in AgentOutcomes : enrich_prescription(q, outcome)

SpecEnrich == Init /\ [][NextEnrich]_vars

\* ------------------------- a store that holds a system ticket (SpecSystem)
\* tickets.hospital_id is nullable (models.py) and create_ticket is written to
\* store an admin's ticket with no hospital ("system ticket"): the store the
\* service is deployed on may hold such a row.
SystemTicket == TicketRow(0, "system", "d0", Dict("x", "absent", <<>>), 0, 1, 0, 0)

InitSystem ==
    /\ patients = <<>>
    /\ doctors = <<>>
    /\ hospitals = <<>>
    /\ admins = <<SeededAdmin>>
    /\ tickets = <<SystemTicket>>
    /\ prescriptions = <<>>
    /\ appointments = <<>>
    /\ now = 1
    /\ inflight = {}
    /\ resp = NoResponse
    /\ updates = 0

NextSystem ==
    \/ \E e \in Emails : Signup("register_hospital", BadToken, e)
    \/ \E tok \in Tokens, t \in TicketRefs, b \in ActionBodies :
          PostAdminAction(tok, t, b[1], b[2])

SpecSystem == InitSystem /\ [][NextSystem]_vars

\* ------------------------------------- hospital lifecycle (SpecHospitals)
NextHospitals ==
    \/ \E e \in Emails : Signup("register_hospital", BadToken, e)
    \/ \E tok \in Tokens, e \in Emails : Signup("admin_create_hospital", tok, e)
    \/ \E tok \in Tokens, t \in TicketRefs, b \in ActionBodies :
          PostAdminAction(tok, t, b[1], b[2])

SpecHospitals == Init /\ [][NextHospitals]_vars

\* ------------------------------------------------------ logins (SpecLogin)
NoToken == [sub |-> 0, role |-> "none"]

LoginOp(kind) ==
    CASE kind = "patient" -> "patient_login"
      [] kind = "doctor" -> "doctor_login"
      [] kind = "hospital" -> "hospital_login"
      [] kind = "admin" -> "admin_login"

\* The HTTPException each login handler raises on bad credentials
InvalidCredentials(kind) ==
    [code |-> IF kind = "hospital" THEN 400 ELSE 401,
     detail |-> IF kind = "admin" THEN "Invalid admin credentials" ELSE "Invalid credentials",
     token |-> NoToken]

\* login answering an email that is not registered with 404
login_revealing(kind, email, password) ==
    LET id == FindByEmail(Table(kind), email)
    IN  IF id = 0 THEN [code |-> 404, detail |-> "Not found", token |-> NoToken]
        ELSE IF ~verify_password(password, Table(kind)[id].password_hash)
        THEN InvalidCredentials(kind)
        ELSE [code |-> 200, detail |-> "", token |-> create_access_token(email, kind)]

\* patient_login, doctor_login, hospital_login, admin_login: the status code,
\* the detail of the error and the token of the response
login(kind, email, password) ==
    LET id == FindByEmail(Table(kind), email)
    IN  IF id = 0 \/ ~verify_password(password, Table(kind)[id].password_hash)
        THEN InvalidCredentials(kind)
        ELSE [code |-> 200, detail |-> "", token |-> create_access_token(email, kind)]

patient_login(email, password) == login("patient", email, password)
doctor_login(email, password) == login("doctor", email, password)
hospital_login(email, password) == login("hospital", email, password)
admin_login(email, password) == login("admin", email, password)

Login(kind, email, password) ==
    /\ resp' = Response(LoginOp(kind), login(kind, email, password).code)
    /\ UNCHANGED <<patients, doctors, hospitals, admins, appointments, tickets,
                   prescriptions, now, inflight, updates>>

NextLogin ==
    \/ \E e \in Emails : Signup("register_hospital", BadToken, e)
    \/ \E e \in {1} : Signup("patient_signup", BadToken, e)
    \/ \E e \in {2} : Signup("doctor_signup", BadToken, e)
    \/ \E kind \in Roles, e \in Emails, p \in Passwords : Login(kind, e, p)

SpecLogin == Init /\ [][NextLogin]_vars

\* ----------------------------------------- appointments (SpecAppointments)
\* The row models.Appointment(...) of book_appointment
AppointmentRow(patient_id, doctor_id) ==
    [patient_id |-> patient_id, doctor_id |-> doctor_id, status |-> "booked"]

\* What db.delete leaves of a row: nothing but its id, which the serial
\* column does not give out again
Deleted == [patient_id |-> 0, doctor_id |-> 0, status |-> "deleted"]

\* The ids of the rows the table holds
StoredAppointments == {i \in Ids(appointments) : appointments[i] # Deleted}

\* POST /appointments: the status code and the table afterwards.  doctor_id is
\* a foreign key: the commit of a row that names no doctor raises
\* IntegrityError (500).
book_appointment(tok, doctor_id) ==
    LET patient == get_current_patient(tok)
        Out(code, rows) == [code |-> code, appointments |-> rows]
    IN  IF ~patient.ok THEN Out(patient.code, appointments)
        ELSE IF doctor_id \notin Ids(doctors) THEN Out(500, appointments)
        ELSE Out(200, Append(appointments, AppointmentRow(patient.id, doctor_id)))

\* get_appointments returning every stored appointment
get_appointments_all(tok) ==
    LET patient == get_current_patient(tok)
    IN  IF ~patient.ok THEN [code |-> patient.code, body |-> {}]
        ELSE [code |-> 200, body |-> StoredAppointments]

\* GET /appointments: the status code and the ids of the rows returned
get_appointments(tok) ==
    LET patient == get_current_patient(tok)
    IN  IF ~patient.ok THEN [code |-> patient.code, body |-> {}]
        ELSE [code |-> 200,
              body |-> {i \in StoredAppointments : appointments[i].patient_id = patient.id}]

\* cancel_appointment without the patient_id filter of its query
cancel_appointment_any(tok, appointment_id) ==
    LET patient == get_current_patient(tok)
        Out(code, rows) == [code |-> code, appointments |-> rows]
    IN  IF ~patient.ok THEN Out(patient.code, appointments)
        ELSE IF appointment_id \notin StoredAppointments THEN Out(404, appointments)
        ELSE Out(200, [appointments EXCEPT ![appointment_id] = Deleted])

\* DELETE /appointments/{appointment_id}: the status code and the table
\* afterwards
cancel_appointment(tok, appointment_id) ==
    LET patient == get_current_patient(tok)
        Out(code, rows) == [code |-> code, appointments |-> rows]
    IN  IF ~patient.ok THEN Out(patient.code, appointments)
        ELSE IF \/ appointment_id \notin StoredAppointments
                \/ appointments[appointment_id].patient_id # patient.id
        THEN Out(404, appointments)
        ELSE Out(200, [appointments EXCEPT ![appointment_id] = Deleted])

PostAppointments(tok, doctor_id) ==
    /\ Len(appointments) < MaxAppointments
    /\ appointments' = book_appointment(tok, doctor_id).appointments
    /\ resp' = Response("book_appointment", book_appointment(tok, doctor_id).code)
    /\ UNCHANGED <<patients, doctors, hospitals, admins, tickets, prescriptions, now,
                   inflight, updates>>

GetAppointments(tok) ==
    /\ resp' = Response("get_appointments", get_appointments(tok).code)
    /\ UNCHANGED <<patients, doctors, hospitals, admins, appointments, tickets,
                   prescriptions, now, inflight, updates>>

DeleteAppointments(tok, appointment_id) ==
    /\ appointments' = cancel_appointment(tok, appointment_id).appointments
    /\ resp' = Response("cancel_appointment", cancel_appointment(tok, appointment_id).code)
    /\ UNCHANGED <<patients, doctors, hospitals, admins, tickets, prescriptions, now,
                   inflight, updates>>

DoctorRefs == 1..(Len(doctors) + 1)
AppointmentRefs == 1..(Len(appointments) + 1)

NextAppointments ==
    \/ \E e \in Emails : Signup("patient_signup", BadToken, e)
    \/ \E e \in {1} : Signup("doctor_signup", BadToken, e)
    \/ \E tok \in Tokens, d \in DoctorRefs : PostAppointments(tok, d)
    \/ \E tok \in Tokens : GetAppointments(tok)
    \/ \E tok \in Tokens, i \in AppointmentRefs : DeleteAppointments(tok, i)

SpecAppointments == Init /\ [][NextAppointments]_vars

\* ------------------------- register_hospital, step by step (SpecRegister)
\* register_hospital in flight: the signup ticket's commit raises; the
\* handler's inner `except Exception` rolls back, prints a warning and goes
\* on to the token and the 201 response
register_ticket_failed(q) ==
    /\ q \in inflight
    /\ q.op = "register_hospital"
    /\ q.pc = "ticket"
    /\ inflight' = inflight \ {q}
    /\ resp' = Response(q.op, 201)
    /\ UNCHANGED <<patients, doctors, hospitals, admins, appointments, tickets,
                   prescriptions, now, updates>>

NextRegister ==
    \/ \E rid \in 1..MaxRequests, e \in Emails :
          signup_check(rid, "register_hospital", BadToken, e)
    \/ \E q \in inflight : signup_insert(q)
    \/ \E q \in inflight : register_ticket(q)
    \/ \E q \in inflight : register_ticket_failed(q)

SpecRegister == Init /\ [][NextRegister]_vars

\* ------------------------------- one ticket, every update (SpecPartial)
\* One hospital registers; its onboarding ticket is updated with every body.
NextPartial ==
    \/ \E e \in {1} : Signup("register_hospital", BadToken, e)
    \/ \E tok \in Tokens, t \in TicketRefs, upd \in LifecycleUpdates \cup ContentUpdates :
          PutTickets(tok, t, upd)

SpecPartial == Init /\ [][NextPartial]_vars

\* ------------------------- update_ticket, step by step (SpecUpdateRace)
\* An update_ticket request between its query and its commit: the actor, the
\* body and the row as the session loaded it
UpdateRequest(rid, actor, ticket_id, upd, loaded) ==
    [rid |-> rid, op |-> "update_ticket", pc |-> "commit", actor |-> actor,
     id |-> ticket_id, upd |-> upd, loaded |-> loaded]

\* update_ticket up to "# Apply updates": the actor, the ticket query and the
\* authorization
update_load(rid, tok, ticket_id, upd) ==
    LET actor == get_actor_from_token(tok)
    IN  /\ rid \in FreeRids
        /\ updates + Cardinality(inflight) < MaxUpdates
        /\ IF ~actor.ok
           THEN resp' = Response("update_ticket", actor.code) /\ UNCHANGED inflight
           ELSE IF ticket_id \notin Ids(tickets)
           THEN resp' = Response("update_ticket", 404) /\ UNCHANGED inflight
           ELSE IF actor.role = "hospital" /\ tickets[ticket_id].hospital_id # actor.id
           THEN resp' = Response("update_ticket", 403) /\ UNCHANGED inflight
           ELSE /\ inflight' = inflight \cup
                      {UpdateRequest(rid, actor, ticket_id, upd, tickets[ticket_id])}
                /\ UNCHANGED resp
        /\ UNCHANGED <<patients, doctors, hospitals, admins, appointments, tickets,
                       prescriptions, now, updates>>

\* The UPDATE that db.commit() flushes: the session sets the columns whose
\* value differs from the one it loaded and no other (for the payload see
\* PayloadWritten); the row keeps what other requests have committed to the
\* rest.  The store runs at READ COMMITTED (database.py sets no isolation
\* level): the UPDATE waits for the row if it must, and is never refused.
FlushedRow(stored, loaded, mem, upd) ==
    [f \in DOMAIN stored |->
        IF f = "payload"
        THEN IF PayloadWritten(loaded, upd) /\ mem.payload # loaded.payload
             THEN mem.payload ELSE stored.payload
        ELSE IF mem[f] # loaded[f] THEN mem[f] ELSE stored[f]]

\* update_ticket from "# Apply updates" to the response
update_commit(q) ==
    /\ q \in inflight
    /\ q.op = "update_ticket"
    /\ q.pc = "commit"
    /\ tickets' = IF Changed(q.upd)
                  THEN [tickets EXCEPT ![q.id] =
                           FlushedRow(@, q.loaded, ApplyUpdate(q.loaded, q.actor, q.upd), q.upd)]
                  ELSE tickets
    /\ updates' = updates + 1
    /\ inflight' = inflight \ {q}
    /\ resp' = Response("update_ticket", 200)
    /\ UNCHANGED <<patients, doctors, hospitals, admins, appointments, prescriptions, now>>

\* PUT /tickets bodies of the concurrent requests: a status or a note
RaceUpdates ==
    {UpdateBody(NULL, NullPayload, s, 0, "") : s \in {"open", "closed"}}
    \cup {UpdateBody(NULL, NullPayload, NULL, 0, n) : n \in {"n1", "n2"}}

NextUpdateRace ==
    \/ \E e \in {1} : Signup("register_hospital", BadToken, e)
    \/ \E rid \in 1..MaxRequests, tok \in Tokens, t \in TicketRefs, upd \in RaceUpdates :
          update_load(rid, tok, t, upd)
    \/ \E q \in inflight : update_commit(q)

SpecUpdateRace == Init /\ [][NextUpdateRace]_vars

\* ------------------------------------ the request's session (SpecSession)
\* A request that depends on get_db: where it is (in the handler, in the
\* dependency's exit code, done), its session, and how the handler ended
SessionRequest(rid, pc, session, outcome) ==
    [rid |-> rid, op |-> "request", pc |-> pc, session |-> session, outcome |-> outcome]

\* How a handler that answers `code` ended: by return, or by raising (an
\* HTTPException for 4xx, any other exception for 500)
Outcome(code) == IF code < 400 THEN "returned" ELSE "raised"

\* get_db up to its yield: db = SessionLocal()
get_db(rid) ==
    /\ rid \in FreeRids
    /\ inflight' = inflight \cup {SessionRequest(rid, "handler", "open", "none")}
    /\ UNCHANGED <<patients, doctors, hospitals, admins, appointments, tickets,
                   prescriptions, now, resp, updates>>

\* The request leaves its handler for the exit code of get_db
Handled(q, code) ==
    inflight' = (inflight \ {q}) \cup {SessionRequest(q.rid, "exit", q.session, Outcome(code))}

\* The handler of a request in flight runs: register_hospital
serve_register_hospital(q, email) ==
    LET out == register_hospital(email)
    IN  /\ q \in inflight /\ q.op = "request" /\ q.pc = "handler"
        /\ hospitals' = out.tables.hospitals
        /\ tickets' = out.tickets
        /\ now' = IF out.tickets # tickets THEN now + 1 ELSE now
        /\ resp' = Response("register_hospital", out.code)
        /\ Handled(q, out.code)
        /\ UNCHANGED <<patients, doctors, admins, appointments, prescriptions, updates>>

\* The handler of a request in flight runs: create_ticket
serve_create_ticket(q, tok, ticket_in) ==
    LET out == create_ticket(tok, ticket_in)
    IN  /\ q \in inflight /\ q.op = "request" /\ q.pc = "handler"
        /\ tickets' = out.tickets
        /\ now' = IF out.tickets # tickets THEN now + 1 ELSE now
        /\ resp' = Response("create_ticket", out.code)
        /\ Handled(q, out.code)
        /\ UNCHANGED <<patients, doctors, hospitals, admins, appointments,
                       prescriptions, updates>>

\* The handler of a request in flight runs: update_ticket
serve_update_ticket(q, tok, ticket_id, upd) ==
    LET out == update_ticket(tok, ticket_id, upd)
    IN  /\ q \in inflight /\ q.op = "request" /\ q.pc = "handler"
        /\ tickets' = out.tickets
        /\ resp' = Response("update_ticket", out.code)
        /\ Handled(q, out.code)
        /\ UNCHANGED <<patients, doctors, hospitals, admins, appointments,
                       prescriptions, now, updates>>

\* The handler of a request in flight runs: admin_take_action
serve_admin_take_action(q, tok, request_id, act, assign_to) ==
    LET out == admin_take_action(tok, request_id, act, assign_to)
    IN  /\ q \in inflight /\ q.op = "request" /\ q.pc = "handler"
        /\ tickets' = out.tickets
        /\ hospitals' = out.hospitals
        /\ resp' = Response("admin_take_action", out.code)
        /\ Handled(q, out.code)
        /\ UNCHANGED <<patients, doctors, admins, appointments, prescriptions, now,
                       updates>>

\* get_db whose db.close() follows the yield without try/finally: an
\* exception thrown into the generator skips it
get_db_exit_unguarded(q) ==
    /\ q \in inflight /\ q.op = "request" /\ q.pc = "exit"
    /\ inflight' = (inflight \ {q}) \cup
          {SessionRequest(q.rid, "done",
                          IF q.outcome = "returned" THEN "closed" ELSE q.session, q.outcome)}
    /\ UNCHANGED <<patients, doctors, hospitals, admins, appointments, tickets,
                   prescriptions, now, resp, updates>>

\* get_db after its yield: `finally: db.close()`, run when the handler has
\* returned and when it has raised
get_db_exit(q) ==
    /\ q \in inflight /\ q.op = "request" /\ q.pc = "exit"
    /\ inflight' = (inflight \ {q}) \cup {SessionRequest(q.rid, "done", "closed", q.outcome)}
    /\ UNCHANGED <<patients, doctors, hospitals, admins, appointments, tickets,
                   prescriptions, now, resp, updates>>

\* PUT /tickets bodies of the requests of SpecSession
SessionUpdates == {UpdateBody(NULL, NullPayload, s, 0, "") : s \in {NULL, "closed"}}

Serve(q) ==
    \/ \E e \in {2} : serve_register_hospital(q, e)
    \/ \E tok \in Tokens, b \in CreateBodies : serve_create_ticket(q, tok, b)
    \/ \E tok \in Tokens, t \in TicketRefs, upd \in SessionUpdates :
          serve_update_ticket(q, tok, t, upd)
    \/ \E tok \in Tokens, t \in TicketRefs, b \in ActionBodies :
          serve_admin_take_action(q, tok, t, b[1], b[2])

NextSession ==
    \/ \E rid \in 1..MaxRequests : get_db(rid)
    \/ \E q \in inflight : Serve(q)
    \/ \E q \in inflight : get_db_exit(q)

\* The framework runs a handler it has called to its end, and the exit code
\* of every dependency that has yielded
SpecSession ==
    /\ InitSystem
    /\ [][NextSession]_vars
    /\ WF_vars(\E q \in inflight : Serve(q))
    /\ WF_vars(\E q \in inflight : get_db_exit(q))

\* ============================================================== the claims
\* The tokens the logins issue to the stored hospitals and admins
HospitalToken(h) == create_access_token(hospitals[h].email, "hospital")
AdminToken(a) == create_access_token(admins[a].email, "admin")
UpdateBodies == LifecycleUpdates \cup ContentUpdates

\* C1: an update_ticket request by a hospital that does not own the ticket is
\* answered 403 and leaves every ticket as it was; the same request by an
\* admin is answered 200 whichever hospital owns the ticket.
C1_UpdateForbiddenForOtherHospital ==
    \A t \in Ids(tickets), upd \in UpdateBodies :
        /\ \A h \in Ids(hospitals) :
              tickets[t].hospital_id # h =>
                  /\ update_ticket(HospitalToken(h), t, upd).code = 403
                  /\ update_ticket(HospitalToken(h), t, upd).tickets = tickets
        /\ \A a \in Ids(admins) : update_ticket(AdminToken(a), t, upd).code = 200

\* C1 witness: a hospital has just been refused on a ticket of another
\* hospital, and an admin has updated a ticket that a hospital owns.
C1_Witness ==
    /\ resp = Response("update_ticket", 403)
    /\ \E t \in Ids(tickets) :
          /\ tickets[t].hospital_id # 0
          /\ tickets[t].last_updated_by_admin # 0

Stamped(t, kind, id) ==
    /\ t.closed_at # 0
    /\ IF kind = "admin"
       THEN t.closed_by_admin = id /\ t.closed_by_hospital = 0
       ELSE t.closed_by_hospital = id /\ t.closed_by_admin = 0

\* C3: whenever update_ticket (status resolved or closed) or admin_take_action
\* (resolve, approve_signup) sets a ticket's status to resolved or closed, the
\* ticket has a closure timestamp and exactly one closed_by field set, the
\* caller's.
C3_ClosureStamped ==
    \A t \in Ids(tickets) :
        /\ \A a \in Ids(admins), act \in {"resolve", "approve_signup"} :
              LET after == admin_take_action(AdminToken(a), t, act, 0).tickets[t]
              IN  after.status \in {"resolved", "closed"} => Stamped(after, "admin", a)
        /\ \A a \in Ids(admins), s \in {"resolved", "closed"} :
              Stamped(update_ticket(AdminToken(a), t,
                          UpdateBody(NULL, NullPayload, s, 0, "")).tickets[t], "admin", a)
        /\ \A h \in Ids(hospitals), s \in {"resolved", "closed"} :
              tickets[t].hospital_id = h =>
                  Stamped(update_ticket(HospitalToken(h), t,
                              UpdateBody(NULL, NullPayload, s, 0, "")).tickets[t],
                          "hospital", h)

\* The notes sequence a payload stores
Notes(payload) ==
    IF payload.kind = "dict" /\ payload.notes = "list" THEN payload.items ELSE <<>>

\* C4: a successful update_ticket call with a note leaves the stored notes
\* equal to the notes stored before plus exactly one entry at the end,
\* whichever other fields the call supplies.
C4_NoteAppended ==
    \A t \in Ids(tickets), a \in Ids(admins), upd \in UpdateBodies :
        LET before == Notes(tickets[t].payload)
            after == Notes(update_ticket(AdminToken(a), t, upd).tickets[t].payload)
        IN  upd.note # "" =>
                /\ Len(after) = Len(before) + 1
                /\ SubSeq(after, 1, Len(before)) = before

\* C5: of the signup requests for one email and one kind, concurrent ones
\* included, the one that does not create the row is answered 400 ("already
\* exists"), and no table ever holds two rows with the same email.
C5_LosingSignupAnswered400 ==
    /\ resp.op \in SignupOps => resp.code \in {200, 201, 400, 401}
    /\ \A kind \in Roles : \A i, j \in Ids(Table(kind)) :
          Table(kind)[i].email = Table(kind)[j].email => i = j

\* C6: a token issued for an account of one kind is resolved by no resolver
\* of another kind, also when the email is registered in both kinds.
C6_NoCrossKindResolution ==
    \A tok \in IssuedTokens, kind \in Roles :
        tok.role # kind => ~get_current(kind, tok).ok

\* C7: create_prescription by a doctor stores a row with the submitted
\* medicines and diagnosis that no later step removes or rewrites; when the
\* request ends its llm_status is done if the collaborator returned and error
\* if it raised, and the response is 201 either way.
C7_PrescriptionDurable ==
    [][ /\ Len(prescriptions') >= Len(prescriptions)
        /\ \A i \in Ids(prescriptions) :
              /\ prescriptions'[i].raw_medicines = prescriptions[i].raw_medicines
              /\ prescriptions'[i].diagnosis = prescriptions[i].diagnosis
              /\ prescriptions'[i].patient_id = prescriptions[i].patient_id
              /\ prescriptions'[i].doctor_id = prescriptions[i].doctor_id
        /\ \A rid \in 1..MaxEnrichments, tok \in Tokens, b \in PresBodies :
              (create_prescription(rid, tok, b) /\ FindByEmail(doctors, tok.sub) # 0) =>
                  /\ Len(prescriptions') = Len(prescriptions) + 1
                  /\ prescriptions'[Len(prescriptions')].raw_medicines = b.raw_medicines
                  /\ prescriptions'[Len(prescriptions')].diagnosis = b.diagnosis
        /\ \A q \in inflight :
              (q.op = "create_prescription" /\ q \notin inflight') =>
                  /\ resp' = Response("create_prescription", 201)
                  /\ \/ /\ enrich_prescription(q, "returned")
                        /\ prescriptions'[q.id].llm_status = "done"
                     \/ /\ enrich_prescription(q, "raised")
                        /\ prescriptions'[q.id].llm_status = "error"
      ]_vars

\* C7 witness: both outcomes have happened: one stored prescription is done,
\* another is error, and the last request was answered 201.
C7_Witness ==
    /\ resp = Response("create_prescription", 201)
    /\ \E i, j \in Ids(prescriptions) :
          /\ prescriptions[i].llm_status = "done"
          /\ prescriptions[j].llm_status = "error"
          /\ prescriptions[j].raw_medicines # prescriptions[i].raw_medicines

\* Whether the claim C8 lets the bearer of tok see prescription i
MaySee(tok, i, download) ==
    \/ tok.role = "patient" /\ FindByEmail(patients, tok.sub) = prescriptions[i].patient_id
    \/ tok.role = "doctor" /\ FindByEmail(doctors, tok.sub) = prescriptions[i].doctor_id
    \/ download /\ tok.role \in {"admin", "hospital"}

\* The prescriptions a response body holds
Returned(out) == {out.body[k] : k \in 1..Len(out.body)}

\* C8: list_patient_prescriptions and get_prescription return a prescription
\* only to its patient or its authoring doctor, download_prescription_pdf also
\* to an admin or a hospital; a doctor who did not write it is answered 403 by
\* all three.
C8_PrescriptionReadAccess ==
    \A tok \in IssuedTokens, i \in Ids(prescriptions) :
        /\ i \in Returned(list_patient_prescriptions(tok, prescriptions[i].patient_id))
              => MaySee(tok, i, FALSE)
        /\ i \in Returned(get_prescription(tok, i)) => MaySee(tok, i, FALSE)
        /\ i \in Returned(download_prescription_pdf(tok, i)) => MaySee(tok, i, TRUE)
        /\ (tok.role = "doctor" /\ ~MaySee(tok, i, FALSE)) =>
              /\ list_patient_prescriptions(tok, prescriptions[i].patient_id).code = 403
              /\ get_prescription(tok, i).code = 403
              /\ download_prescription_pdf(tok, i).code = 403

\* The tickets the claim C9 lets a caller list: those matching the status
\* filter and owned by `owner` (0: owned by anyone)
Listed(status, owner) ==
    {i \in Ids(tickets) : /\ owner # 0 => tickets[i].hospital_id = owner
                          /\ status # "" => tickets[i].status = status}

\* A response body holds exactly the tickets in S, each once, newest first
NewestFirst(body, S) ==
    /\ Len(body) = Cardinality(S)
    /\ {body[k] : k \in 1..Len(body)} = S
    /\ \A k \in 1..(Len(body) - 1) :
          tickets[body[k]].created_at >= tickets[body[k + 1]].created_at

\* C9: get_tickets answers a hospital with its own tickets narrowed by the
\* status filter only (a hospital_id filter is ignored), an admin with the
\* tickets matching both filters, in both cases newest-created first, and a
\* patient or a doctor with 403.
C9_ListRoleScoped ==
    \A s \in StatusValues \cup {""}, f \in HospitalRefs :
        /\ \A h \in Ids(hospitals) :
              /\ get_tickets(HospitalToken(h), s, f).code = 200
              /\ NewestFirst(get_tickets(HospitalToken(h), s, f).body, Listed(s, h))
        /\ \A a \in Ids(admins) :
              /\ get_tickets(AdminToken(a), s, f).code = 200
              /\ NewestFirst(get_tickets(AdminToken(a), s, f).body, Listed(s, f))
        /\ \A p \in Ids(patients) :
              get_tickets(create_access_token(patients[p].email, "patient"), s, f).code = 403
        /\ \A d \in Ids(doctors) :
              get_tickets(create_access_token(doctors[d].email, "doctor"), s, f).code = 403

\* C9 witness: a listing has just been answered while two hospitals own
\* tickets in different statuses, and a patient and a doctor are registered.
C9_Witness ==
    /\ resp = Response("get_tickets", 200)
    /\ patients # <<>> /\ doctors # <<>>
    /\ \E i, j \in Ids(tickets) :
          /\ tickets[i].hospital_id # tickets[j].hospital_id
          /\ tickets[i].status = "open" /\ tickets[j].status = "resolved"

Terminal == {"resolved", "rejected", "closed"}

ActionStatus(act) ==
    CASE act = "start" -> "in_progress"
      [] act = "assign" -> "in_progress"
      [] act = "resolve" -> "resolved"
      [] act = "reject" -> "rejected"

HospitalStatuses == {"pending", "active", "blocked"}

\* C12: register_hospital stores a hospital with status pending and
\* admin_create_hospital one with status active; every stored hospital's
\* status is pending, active or blocked; the only change of a hospital's
\* status is from pending to active, in an approve_signup action that an
\* admin applies to a ticket the hospital owns.
C12_HospitalLifecycle ==
    [][ /\ \A h \in Ids(hospitals') : hospitals'[h].status \in HospitalStatuses
        /\ \A e \in Emails :
              /\ Signup("register_hospital", BadToken, e) /\ resp'.code = 201 =>
                    /\ Len(hospitals') = Len(hospitals) + 1
                    /\ hospitals'[Len(hospitals')].email = e
                    /\ hospitals'[Len(hospitals')].status = "pending"
              /\ \A tok \in Tokens :
                    Signup("admin_create_hospital", tok, e) /\ resp'.code = 200 =>
                        /\ Len(hospitals') = Len(hospitals) + 1
                        /\ hospitals'[Len(hospitals')].email = e
                        /\ hospitals'[Len(hospitals')].status = "active"
        /\ \A h \in Ids(hospitals) :
              hospitals'[h].status # hospitals[h].status =>
                  /\ hospitals[h].status = "pending"
                  /\ hospitals'[h].status = "active"
                  /\ \E tok \in Tokens, t \in Ids(tickets) :
                        /\ FindByEmail(admins, tok.sub) # 0
                        /\ tickets[t].hospital_id = h
                        /\ PostAdminAction(tok, t, "approve_signup", 0)
      ]_vars

\* C12 witness: a hospital that registered itself is active after an
\* approve_signup on its onboarding ticket, and an admin has just created a
\* second hospital, active and without a ticket.
C12_Witness ==
    /\ resp = Response("admin_create_hospital", 200)
    /\ \E h, k \in Ids(hospitals), t \in Ids(tickets) :
          /\ hospitals[h].status = "active"
          /\ tickets[t].hospital_id = h
          /\ tickets[t].type = "onboard_hospital"
          /\ tickets[t].status = "resolved"
          /\ hospitals[k].status = "active"
          /\ \A u \in Ids(tickets) : tickets[u].hospital_id # k

\* C13: every update_ticket call answered 200 leaves the stored ticket with
\* last_updated_by_admin (an admin's call) or last_updated_by_hospital (a
\* hospital's call) equal to the caller's id, whichever fields the body
\* supplies, none included.
C13_UpdaterStamped ==
    \A t \in Ids(tickets), upd \in UpdateBodies :
        /\ \A a \in Ids(admins) :
              update_ticket(AdminToken(a), t, upd).code = 200 =>
                  update_ticket(AdminToken(a), t, upd).tickets[t].last_updated_by_admin = a
        /\ \A h \in Ids(hospitals) :
              update_ticket(HospitalToken(h), t, upd).code = 200 =>
                  update_ticket(HospitalToken(h), t, upd).tickets[t].last_updated_by_hospital = h

\* What a client sees of a failed login
Answer(out) == <<out.code, out.detail, out.token>>

\* C14: for each of the four logins, a password that does not verify against
\* the stored hash gets no token, and the response for an email that is not
\* registered equals (status, detail, no token) the response for a registered
\* email with a wrong password.
C14_LoginLeaksNothing ==
    \A kind \in Roles, e \in Emails, p \in Passwords :
        LET id == FindByEmail(Table(kind), e)
        IN  /\ (id # 0 /\ ~verify_password(p, Table(kind)[id].password_hash)) =>
                  /\ login(kind, e, p).token = NoToken
                  /\ login(kind, e, p).code # 200
                  /\ \A u \in Emails, q \in Passwords :
                        FindByEmail(Table(kind), u) = 0 =>
                            Answer(login(kind, u, q)) = Answer(login(kind, e, p))
            /\ login(kind, e, p).token # NoToken =>
                  /\ id # 0
                  /\ verify_password(p, Table(kind)[id].password_hash)

\* C14 witness: a login has just failed while one email is registered as a
\* hospital and the other is not.
C14_Witness ==
    /\ resp = Response("hospital_login", 400)
    /\ Len(hospitals) = 1
    /\ patients # <<>> /\ doctors # <<>>

\* C15: each of the four logins answers bad credentials (an email that is
\* not registered, or a password that does not verify) with status 401.
C15_BadCredentials401 ==
    \A kind \in Roles, e \in Emails, p \in Passwords :
        LET id == FindByEmail(Table(kind), e)
        IN  (id = 0 \/ ~verify_password(p, Table(kind)[id].password_hash)) =>
                login(kind, e, p).code = 401

PatientToken(p) == create_access_token(patients[p].email, "patient")

\* C16: cancel_appointment by a patient on a stored appointment of another
\* patient is answered 404 and changes nothing; by the appointment's own
\* patient it deletes that appointment and no other; and no step removes an
\* appointment except a cancel_appointment request resolved to its patient.
C16_CancelOwnOnly ==
    [][ /\ \A p \in Ids(patients), i \in StoredAppointments :
              LET out == cancel_appointment(PatientToken(p), i)
              IN  IF appointments[i].patient_id # p
                  THEN out.code = 404 /\ out.appointments = appointments
                  ELSE /\ out.code = 200
                       /\ out.appointments = [appointments EXCEPT ![i] = Deleted]
        /\ \A i \in StoredAppointments :
              appointments'[i] # appointments[i] =>
                  /\ appointments' = [appointments EXCEPT ![i] = Deleted]
                  /\ \E tok \in Tokens :
                        /\ FindByEmail(patients, tok.sub) = appointments[i].patient_id
                        /\ DeleteAppointments(tok, i)
      ]_vars

\* C16 witness: a cancel request has just been refused with 404 while
\* another patient's appointment is stored, and an appointment has been
\* deleted before.
C16_Witness ==
    /\ resp = Response("cancel_appointment", 404)
    /\ Len(patients) = 2
    /\ \E i, j \in Ids(appointments) :
          appointments[i] = Deleted /\ appointments[j] # Deleted

\* C17: book_appointment by a patient with an existing doctor d adds one
\* appointment with patient_id the caller's id, doctor_id d and status
\* booked; get_appointments by a patient returns exactly the stored
\* appointments of that patient, none of another patient.
C17_BookAndList ==
    \A p \in Ids(patients) :
        /\ \A d \in Ids(doctors) :
              LET out == book_appointment(PatientToken(p), d)
              IN  /\ out.code = 200
                  /\ out.appointments = Append(appointments,
                        [patient_id |-> p, doctor_id |-> d, status |-> "booked"])
        /\ get_appointments(PatientToken(p)).code = 200
        /\ get_appointments(PatientToken(p)).body
              = {i \in Ids(appointments) : appointments[i].patient_id = p}

\* C17 witness: a listing has just been answered while two patients each
\* have a booked appointment.
C17_Witness ==
    /\ resp = Response("get_appointments", 200)
    /\ \E i, j \in Ids(appointments) :
          /\ appointments[i].status = "booked" /\ appointments[j].status = "booked"
          /\ appointments[i].patient_id # appointments[j].patient_id

\* C18: every hospital whose register_hospital request has been answered is
\* stored with status pending, owns an onboarding ticket (type
\* onboard_hospital, its own hospital_id) and is the hospital its token
\* resolves to.
C18_RegisteredOwnsTicket ==
    \A h \in Ids(hospitals) :
        (\A q \in inflight : q.id # h) =>
            /\ hospitals[h].status = "pending"
            /\ get_current_hospital(HospitalToken(h)).ok
            /\ get_current_hospital(HospitalToken(h)).id = h
            /\ \E t \in Ids(tickets) :
                  /\ tickets[t].hospital_id = h
                  /\ tickets[t].type = "onboard_hospital"

DoctorToken(d) == create_access_token(doctors[d].email, "doctor")

\* C19: create_ticket with the token of a patient or of a doctor is answered
\* 403 and leaves the tickets table as it was.
C19_CreateForbiddenForOthers ==
    \A b \in CreateBodies :
        /\ \A p \in Ids(patients) :
              /\ create_ticket(PatientToken(p), b).code = 403
              /\ create_ticket(PatientToken(p), b).tickets = tickets
        /\ \A d \in Ids(doctors) :
              /\ create_ticket(DoctorToken(d), b).code = 403
              /\ create_ticket(DoctorToken(d), b).tickets = tickets

\* C19 witness: a create_ticket request has just been answered 403 while a
\* patient, a doctor and a ticket are stored.
C19_Witness ==
    /\ resp = Response("create_ticket", 403)
    /\ patients # <<>> /\ doctors # <<>> /\ tickets # <<>>

\* C20: create_ticket by a hospital or by an admin with a well-formed body is
\* answered 201 and stores one new ticket with status open, no closure
\* fields, the creator's id in last_updated_by_hospital (last_updated_by_admin)
\* and, for an admin, the hospital_id of the body.
C20_CreateStoresOpenTicket ==
    \A b \in CreateBodies :
        /\ \A h \in Ids(hospitals) :
              LET out == create_ticket(HospitalToken(h), b)
                  new == out.tickets[Len(out.tickets)]
              IN  /\ out.code = 201
                  /\ Len(out.tickets) = Len(tickets) + 1
                  /\ new.status = "open" /\ new.closed_at = 0
                  /\ new.closed_by_admin = 0 /\ new.closed_by_hospital = 0
                  /\ new.last_updated_by_hospital = h
        /\ \A a \in Ids(admins) :
              LET out == create_ticket(AdminToken(a), b)
                  new == out.tickets[Len(out.tickets)]
              IN  /\ out.code = 201
                  /\ Len(out.tickets) = Len(tickets) + 1
                  /\ new.status = "open" /\ new.closed_at = 0
                  /\ new.closed_by_admin = 0 /\ new.closed_by_hospital = 0
                  /\ new.last_updated_by_admin = a
                  /\ new.hospital_id = b.hospital_id

\* The action verbs admin_take_action knows
KnownActions == {"assign", "start", "resolve", "reject", "approve_signup"}

\* C21: admin_take_action by an admin on a stored ticket with an action verb
\* outside assign, start, resolve, reject, approve_signup, or with assign and
\* no assign_to, is answered 400 and leaves every ticket and every hospital
\* as stored; on a ticket id that is not stored it is answered 404, whatever
\* the action.
C21_UnknownActionRejected ==
    \A a \in Ids(admins), b \in ActionBodies :
        /\ (b[1] \notin KnownActions \/ (b[1] = "assign" /\ b[2] = 0)) =>
              \A t \in Ids(tickets) :
                  LET out == admin_take_action(AdminToken(a), t, b[1], b[2])
                  IN  /\ out.code = 400
                      /\ out.tickets = tickets
                      /\ out.hospitals = hospitals
        /\ LET out == admin_take_action(AdminToken(a), Len(tickets) + 1, b[1], b[2])
           IN  /\ out.code = 404
               /\ out.tickets = tickets
               /\ out.hospitals = hospitals

\* C21 witness: an action has just been answered 400 while a pending
\* hospital is stored and one of the tickets has been assigned to an admin.
C21_Witness ==
    /\ resp = Response("admin_take_action", 400)
    /\ \E h \in Ids(hospitals) : hospitals[h].status = "pending"
    /\ \E t \in Ids(tickets) :
          tickets[t].assigned_admin # 0 /\ tickets[t].status = "in_progress"

\* C22: in every reachable state the status of every stored ticket is one of
\* open, in_progress, resolved, rejected, closed.
C22_StatusInEnum ==
    \A t \in Ids(tickets) : tickets[t].status \in StatusValues

\* C23: update_ticket keeps the stored details, payload, assigned_admin and
\* status of the ticket when the request does not supply them (the payload
\* when it supplies neither payload nor note), never changes hospital_id,
\* type or created_at, and adds or removes no ticket.
C23_PartialUpdate ==
    \A tok \in Tokens, t \in Ids(tickets), upd \in UpdateBodies :
        LET out == update_ticket(tok, t, upd)
            before == tickets[t]
            after == out.tickets[t]
        IN  /\ Len(out.tickets) = Len(tickets)
            /\ upd.details = NULL => after.details = before.details
            /\ (upd.payload = NullPayload /\ upd.note = "") => after.payload = before.payload
            /\ upd.assigned_admin = 0 => after.assigned_admin = before.assigned_admin
            /\ upd.status = NULL => after.status = before.status
            /\ after.hospital_id = before.hospital_id
            /\ after.type = before.type
            /\ after.created_at = before.created_at

\* C23 witness: an update has just been answered 200 and a stored ticket has
\* new details next to the type, the payload and the status it was created
\* with.
C23_Witness ==
    /\ resp = Response("update_ticket", 200)
    /\ \E t \in Ids(tickets) :
          /\ tickets[t].details = "d1"
          /\ tickets[t].type = "onboard_hospital"
          /\ tickets[t].payload = SignupTicket(tickets[t].hospital_id).payload
          /\ tickets[t].status = "open"

\* C24: an update_ticket call by an admin or by the owning hospital that
\* supplies both payload and note stores the supplied payload (its keys, none
\* of the old payload's) with one note entry, the caller's, appended to the
\* notes of the supplied payload.
C24_ReplaceThenAppend ==
    \A t \in Ids(tickets), upd \in UpdateBodies :
        (upd.payload # NullPayload /\ upd.note # "") =>
            /\ \A a \in Ids(admins) :
                  LET after == update_ticket(AdminToken(a), t, upd).tickets[t].payload
                  IN  /\ after.kind = "dict"
                      /\ after.data = upd.payload.data
                      /\ Notes(after) = Append(Notes(upd.payload),
                                               NoteEntry("admin", a, upd.note, now))
            /\ \A h \in Ids(hospitals) : tickets[t].hospital_id = h =>
                  LET after == update_ticket(HospitalToken(h), t, upd).tickets[t].payload
                  IN  /\ after.kind = "dict"
                      /\ after.data = upd.payload.data
                      /\ Notes(after) = Append(Notes(upd.payload),
                                               NoteEntry("hospital", h, upd.note, now))

\* C24 witness: an update has just been answered 200 and the onboarding
\* ticket stores the keys of a supplied payload in place of its own, with a
\* note appended after the note that payload carried.
C24_Witness ==
    /\ resp = Response("update_ticket", 200)
    /\ \E t \in Ids(tickets) :
          /\ tickets[t].type = "onboard_hospital"
          /\ tickets[t].payload.data = "x"
          /\ Len(Notes(tickets[t].payload)) = 2
          /\ Notes(tickets[t].payload)[1] = SentNote
          /\ Notes(tickets[t].payload)[2].note = "n1"

\* The fields a request body supplies, as columns of the ticket
Supplied(upd) ==
    {f \in {"details", "payload", "assigned_admin", "status"} :
        \/ f = "details" /\ upd.details # NULL
        \/ f = "payload" /\ (upd.payload # NullPayload \/ upd.note # "")
        \/ f = "assigned_admin" /\ upd.assigned_admin # 0
        \/ f = "status" /\ upd.status # NULL}

\* C25: of two update_ticket requests that have both read a ticket before
\* either commits, neither is refused, and when the second commits, each
\* field it writes is stored with its value (the last write wins).
C25_LastWriteWins ==
    [][\A q \in inflight :
          (update_commit(q) /\ tickets[q.id] # q.loaded) =>
              /\ resp' = Response("update_ticket", 200)
              /\ \A f \in Supplied(q.upd) :
                    tickets'[q.id][f] = ApplyUpdate(q.loaded, q.actor, q.upd)[f]
      ]_vars

\* The session of request rid is open / closed
SessionOpen(rid) == \E q \in inflight : q.rid = rid /\ q.session = "open"
SessionClosed(rid) == \E q \in inflight : q.rid = rid /\ q.session = "closed"

\* C26: the session every request gets from get_db is eventually closed,
\* whether its handler returns or raises, and no request is done with its
\* session still open.
C26_SessionReleased ==
    /\ [](\A q \in inflight : q.pc = "done" => q.session = "closed")
    /\ \A rid \in 1..MaxRequests : SessionOpen(rid) ~> SessionClosed(rid)

\* C26 witness: two requests are done, one whose handler returned and one
\* whose handler raised an exception that is no HTTPException, both with
\* their session closed.
C26_Witness ==
    /\ resp = Response("create_ticket", 500)
    /\ \E q, r \in inflight :
          /\ q.pc = "done" /\ q.outcome = "returned" /\ q.session = "closed"
          /\ r.pc = "done" /\ r.outcome = "raised" /\ r.session = "closed"

\* The create_prescription request that is between its two commits on row i
Enriching(i) == \E q \in inflight : q.op = "create_prescription" /\ q.id = i

\* C27: a prescription is stored with llm_status pending by the first commit
\* of create_prescription and is pending exactly while that request is
\* between its two commits (so never once the request has answered); the
\* second commit changes the status once, to done or error, and no step
\* changes it afterwards.
C27_PendingWhileInFlight ==
    /\ [](\A i \in Ids(prescriptions) :
             /\ prescriptions[i].llm_status \in {"pending", "done", "error"}
             /\ prescriptions[i].llm_status = "pending" <=> Enriching(i))
    /\ [][ /\ \A i \in Ids(prescriptions') \ Ids(prescriptions) :
                 prescriptions'[i].llm_status = "pending"
           /\ \A i \in Ids(prescriptions) :
                 prescriptions'[i].llm_status # prescriptions[i].llm_status =>
                     /\ prescriptions[i].llm_status = "pending"
                     /\ prescriptions'[i].llm_status \in {"done", "error"}
                     /\ \E q \in inflight, outcome \in AgentOutcomes :
                           q.id = i /\ enrich_prescription(q, outcome)
         ]_vars

\* C27 witness: a prescription is pending while its request is between its
\* two commits, and the prescription of a request that has answered stores
\* error.
C27_Witness ==
    \E i, j \in Ids(prescriptions) :
        /\ prescriptions[i].llm_status = "pending" /\ Enriching(i)
        /\ prescriptions[j].llm_status = "error" /\ ~Enriching(j)

\* C28: an update_ticket request with the token of a patient or of a doctor
\* changes no field of any ticket, for every ticket and every body.
C28_OnlyHospitalAndAdminModify ==
    \A t \in Ids(tickets), upd \in UpdateBodies :
        /\ \A p \in Ids(patients) :
              update_ticket(PatientToken(p), t, upd).tickets = tickets
        /\ \A d \in Ids(doctors) :
              update_ticket(DoctorToken(d), t, upd).tickets = tickets

\* C29: get_prescription and download_prescription_pdf answer a request with
\* an invalid token 401 whether or not the prescription id is stored: the
\* response for a stored id equals the response for an id that is not stored.
C29_DenialIgnoresExistence ==
    \A p \in Ids(prescriptions) :
        LET absent == Len(prescriptions) + 1
        IN  /\ get_prescription(BadToken, p).code = 401
            /\ get_prescription(BadToken, absent) = get_prescription(BadToken, p)
            /\ download_prescription_pdf(BadToken, p).code = 401
            /\ download_prescription_pdf(BadToken, absent)
                  = download_prescription_pdf(BadToken, p)
====
